---- MODULE Spec2Model ----
(***************************************************************************)
(* Model of the envoy-api ingest gateway (src/main.py) and of the client   *)
(* side of its signing scheme (src/test_client.py).                        *)
(*                                                                         *)
(* Bytes are small naturals, byte strings are sequences of them, text is a *)
(* sequence of one-character strings.  The cryptographic primitives are    *)
(* small keyed functions with the same interfaces as the library calls:    *)
(* HKDF(ikm, info), HMAC(key, msg).hexdigest(), Fernet(key).encrypt and    *)
(* Fernet(key).decrypt (version byte, ciphertext, authentication tag; the  *)
(* timestamp and the IV are left out, decrypt is called without a ttl).    *)
(***************************************************************************)
EXTENDS Integers, Sequences, FiniteSets, TLC

\* ---------------------------------------------------------------- bounds
MaxByte == 2
MaxBodyLen == 3

\* ------------------------------------------------------------ byte strings
Bytes == 0..MaxByte

RECURSIVE SeqsUpTo(_, _)
SeqsUpTo(S, n) ==
    IF n = 0 THEN {<<>>}
    ELSE LET shorter == SeqsUpTo(S, n - 1)
         IN  shorter \cup {Append(s, x) : s \in {t \in shorter : Len(t) = n - 1}, x \in S}

Bodies == SeqsUpTo(Bytes, MaxBodyLen)

RECURSIVE WeightedSum(_)
WeightedSum(s) ==
    IF s = <<>> THEN 0 ELSE WeightedSum(SubSeq(s, 1, Len(s) - 1)) + Len(s) * (s[Len(s)] + 1)

\* ---------------------------------------------------------- key derivation
KeySpace == 4

INFO_AUTH == 1
INFO_ENCRYPT == 2

\* HKDF(algorithm=SHA256, length=32, salt=None, info=info).derive(ikm)
HKDF(ikm, info) == (WeightedSum(ikm) + info) % KeySpace

\* base64.urlsafe_b64encode / the decoding done by Fernet(key)
urlsafe_b64encode(k) == [b64 |-> k]
urlsafe_b64decode(t) == t.b64

\* --------------------------------------------------------------- signatures
HEX == <<"0", "1", "2", "3", "4", "5", "6", "7", "8", "9", "a", "b", "c", "d", "e", "f">>
DigestSpace == 16

\* hmac.new(key, msg, sha256).digest(), as a value below DigestSpace
HMAC(key, msg) == (key * 5 + WeightedSum(msg) + 10) % DigestSpace

\* .hexdigest(): lowercase hexadecimal text
hexdigest(d) == <<HEX[d + 1]>>

NonAscii == {"é"}

IsAscii(s) == \A i \in 1..Len(s) : s[i] \notin NonAscii

\* hmac.compare_digest on two str: TypeError on non-ASCII text, else equality
compare_digest(a, b) ==
    IF IsAscii(a) /\ IsAscii(b) THEN [raised |-> FALSE, equal |-> a = b]
    ELSE [raised |-> TRUE, equal |-> FALSE]

\* ------------------------------------------------------------ payload cipher
FERNET_VERSION == 2

FernetTag(k, data) == (k * 2 + WeightedSum(data) + 1) % (MaxByte + 1)

\* Fernet(key).encrypt(plaintext)
FernetEncrypt(key, plaintext) ==
    LET k    == urlsafe_b64decode(key)
        ct   == [i \in 1..Len(plaintext) |-> (plaintext[i] + k) % (MaxByte + 1)]
        data == <<FERNET_VERSION>> \o ct
    IN  Append(data, FernetTag(k, data))

\* faulty variant: decrypt that checks the framing but not the authentication tag
FernetDecrypt_no_tag_check(key, token) ==
    LET k == urlsafe_b64decode(key)
    IN  IF Len(token) < 2 \/ token[1] # FERNET_VERSION THEN [ok |-> FALSE, data |-> <<>>]
        ELSE LET ct == SubSeq(token, 2, Len(token) - 1)
             IN  [ok |-> TRUE,
                  data |-> [i \in 1..Len(ct) |-> (ct[i] + (MaxByte + 1) * KeySpace - k) % (MaxByte + 1)]]

\* Fernet(key).decrypt(token): InvalidToken unless framing and tag verify
FernetDecrypt(key, token) ==
    LET k == urlsafe_b64decode(key)
    IN  IF Len(token) < 2 THEN [ok |-> FALSE, data |-> <<>>]
        ELSE LET data == SubSeq(token, 1, Len(token) - 1)
                 ct   == SubSeq(token, 2, Len(token) - 1)
             IN  IF data[1] # FERNET_VERSION \/ token[Len(token)] # FernetTag(k, data)
                 THEN [ok |-> FALSE, data |-> <<>>]
                 ELSE [ok |-> TRUE,
                       data |-> [i \in 1..Len(ct) |-> (ct[i] + (MaxByte + 1) * KeySpace - k) % (MaxByte + 1)]]

\* ------------------------------------------------------------------- JSON
\* Byte 0 is "{", byte 1 is "}", byte 2 is a digit; any other byte is junk.
\* json.loads: "{}" is an object, a run of digits is a number, the rest fails.
json_loads(body) ==
    IF body = <<0, 1>> THEN [ok |-> TRUE, kind |-> "dict"]
    ELSE IF body # <<>> /\ \A i \in 1..Len(body) : body[i] = 2
         THEN [ok |-> TRUE, kind |-> "number"]
         ELSE [ok |-> FALSE, kind |-> "none"]

\* ------------------------------------------------------------------ state
VARIABLES
    IS_PROD_ENVIRONMENT,    \* "K_SERVICE" in os.environ
    anchorSecret,           \* ANCHOR_KEY as the vault / the environment holds it
    phase,                  \* "import", "keyed", "serving", "crashed"
    MASTER_KEY,
    AUTH_KEY,
    ENCRYPTION_KEY,
    keyWrites,              \* number of assignments made to the derived keys
    req                     \* the request being handled

vars == <<IS_PROD_ENVIRONMENT, anchorSecret, phase, MASTER_KEY, AUTH_KEY,
          ENCRYPTION_KEY, keyWrites, req>>

NoKey == -1

\* the master secrets a deployment may hold: empty, or one of two values
Secrets == {<<>>, <<0>>, <<1>>}

SecretStates == {[set |-> FALSE, data |-> <<>>]} \cup {[set |-> TRUE, data |-> s] : s \in Secrets}

Endpoints == {"root", "boot", "directive", "ingest"}
Filenames == {"uploaded.file", "secret.log.enc"}

\* header values: every one-character text over the hex digits, an upper-case
\* digit, a non-hex letter and a non-ASCII character; the empty text; and
\* texts of the wrong length
SigChars == {HEX[i] : i \in 1..Len(HEX)} \cup {"A", "g"} \cup NonAscii
SigTexts == {<<>>} \cup {<<c>> : c \in SigChars} \cup {<<"a", "a">>, <<"i", "n", "v">>}
Headers == {[present |-> FALSE, value |-> <<>>]} \cup {[present |-> TRUE, value |-> t] : t \in SigTexts}

NoResponse == [status |-> "", filename |-> "", size |-> -1, gcs_path |-> <<>>]

Idle ==
    [pc |-> "idle", endpoint |-> "root", sig |-> [present |-> FALSE, value |-> <<>>],
     body |-> <<>>, filename |-> "uploaded.file",
     steps |-> <<>>, calls |-> <<>>, code |-> 0, raised |-> "none",
     responses |-> 0, json |-> NoResponse]

Init ==
    /\ IS_PROD_ENVIRONMENT \in BOOLEAN
    /\ anchorSecret \in SecretStates
    /\ phase = "import"
    /\ MASTER_KEY = <<>>
    /\ AUTH_KEY = NoKey
    /\ ENCRYPTION_KEY = urlsafe_b64encode(NoKey)
    /\ keyWrites = 0
    /\ req = Idle

\* ---------------------------------------------------------------- startup
\* get_anchor_key(): the secret, or an exception that aborts the import
get_anchor_key(prod, secret) ==
    IF prod
    THEN IF secret.set THEN [ok |-> TRUE, key |-> secret.data]
                       ELSE [ok |-> FALSE, key |-> <<>>]
    ELSE IF ~secret.set \/ secret.data = <<>>
         THEN [ok |-> FALSE, key |-> <<>>]
         ELSE [ok |-> TRUE, key |-> secret.data]

derive_auth_key(master) == HKDF(master, INFO_AUTH)

\* faulty variant: the encryption key derived under the authentication label
derive_encryption_key_auth_label(master) == urlsafe_b64encode(HKDF(master, INFO_AUTH))

\* base64.urlsafe_b64encode(hkdf_encrypt.derive(MASTER_KEY))
derive_encryption_key(master) == urlsafe_b64encode(HKDF(master, INFO_ENCRYPT))

\* MASTER_KEY = get_anchor_key().encode()
LoadMasterKey ==
    /\ phase = "import"
    /\ LET got == get_anchor_key(IS_PROD_ENVIRONMENT, anchorSecret)
       IN  IF got.ok
           THEN /\ MASTER_KEY' = got.key
                /\ phase' = "keyed"
           ELSE /\ MASTER_KEY' = MASTER_KEY
                /\ phase' = "crashed"
    /\ UNCHANGED <<IS_PROD_ENVIRONMENT, anchorSecret, AUTH_KEY, ENCRYPTION_KEY, keyWrites, req>>

\* AUTH_KEY, ENCRYPTION_KEY and FERNET_INSTANCE, then the app starts serving
DeriveKeys ==
    /\ phase = "keyed"
    /\ AUTH_KEY' = derive_auth_key(MASTER_KEY)
    /\ ENCRYPTION_KEY' = derive_encryption_key(MASTER_KEY)
    /\ keyWrites' = keyWrites + 1
    /\ phase' = "serving"
    /\ UNCHANGED <<IS_PROD_ENVIRONMENT, anchorSecret, MASTER_KEY, req>>

\* ------------------------------------------------------- request handling
Step(r, name) == [r EXCEPT !.steps = Append(@, name)]

\* the handler returns a body: 200
Return(r, payload) ==
    [r EXCEPT !.pc = "done", !.code = 200, !.raised = "none",
              !.responses = @ + 1, !.json = payload]

\* raise HTTPException(status_code=code): FastAPI answers with that status
RaiseHTTP(r, code) ==
    [r EXCEPT !.pc = "done", !.code = code, !.raised = "HTTPException",
              !.responses = @ + 1]

\* any other exception leaves the handler; the server answers 500
RaiseUnhandled(r, exc) ==
    [r EXCEPT !.pc = "done", !.code = 500, !.raised = exc, !.responses = @ + 1]

\* a required parameter is missing: FastAPI answers 422 without calling the handler
RejectValidation(r) ==
    [r EXCEPT !.pc = "done", !.code = 422, !.raised = "RequestValidationError",
              !.responses = @ + 1]

\* the routes: verify_hmac is a dependency of /boot and /directive; /ingest
\* declares the header as required, Header(...), and has no dependency
Route(endpoint, sig, body, filename) ==
    LET r == [Idle EXCEPT !.endpoint = endpoint, !.sig = sig, !.body = body,
                          !.filename = filename]
    IN  CASE endpoint \in {"boot", "directive"} -> [r EXCEPT !.pc = "depends"]
          [] endpoint = "ingest" ->
                IF sig.present THEN [Step(r, "header") EXCEPT !.pc = "handler"]
                               ELSE RejectValidation(Step(r, "header"))
          [] OTHER -> [r EXCEPT !.pc = "handler"]

Receive ==
    /\ phase = "serving"
    /\ req.pc = "idle"
    /\ \E endpoint \in Endpoints, sig \in Headers, body \in Bodies, filename \in Filenames :
          /\ endpoint = "root" => (~sig.present /\ body = <<>>)
          /\ endpoint # "ingest" => filename = "uploaded.file"
          /\ req' = Route(endpoint, sig, body, filename)
    /\ UNCHANGED <<IS_PROD_ENVIRONMENT, anchorSecret, phase, MASTER_KEY, AUTH_KEY,
                   ENCRYPTION_KEY, keyWrites>>

\* faulty variant: a mismatch is noticed but the request goes on to the handler
verify_hmac_result_no_raise(r, auth_key) ==
    IF ~r.sig.present \/ r.sig.value = <<>>
    THEN RaiseHTTP(Step(r, "header"), 401)
    ELSE [Step(Step(Step(r, "header"), "body"), "hmac") EXCEPT !.pc = "handler"]

\* verify_hmac(request, x_anchor_signature)
verify_hmac_result(r, auth_key) ==
    IF ~r.sig.present \/ r.sig.value = <<>>
    THEN RaiseHTTP(Step(r, "header"), 401)
    ELSE LET r1 == Step(Step(Step(r, "header"), "body"), "hmac")
             expected_signature == hexdigest(HMAC(auth_key, r.body))
             cmp == compare_digest(expected_signature, r.sig.value)
         IN  IF cmp.raised THEN RaiseUnhandled(r1, "TypeError")
             ELSE IF ~cmp.equal THEN RaiseHTTP(r1, 403)
             ELSE [Step(r1, "verified") EXCEPT !.pc = "handler"]

verify_hmac ==
    /\ phase = "serving"
    /\ req.pc = "depends"
    /\ req' = verify_hmac_result(req, AUTH_KEY)
    /\ UNCHANGED <<IS_PROD_ENVIRONMENT, anchorSecret, phase, MASTER_KEY, AUTH_KEY,
                   ENCRYPTION_KEY, keyWrites>>

\* read_root()
read_root ==
    /\ phase = "serving"
    /\ req.pc = "handler"
    /\ req.endpoint = "root"
    /\ req' = Return(req, [NoResponse EXCEPT !.status = "ok"])
    /\ UNCHANGED <<IS_PROD_ENVIRONMENT, anchorSecret, phase, MASTER_KEY, AUTH_KEY,
                   ENCRYPTION_KEY, keyWrites>>

Call(r, op, key, data, ok) ==
    [Step(r, "write") EXCEPT !.calls = Append(@, [op |-> op, key |-> key, data |-> data, ok |-> ok])]

\* boot_endpoint(request); firestore_ok is the outcome of doc_ref.set
boot_result(r, prod, firestore_ok) ==
    LET boot_data == json_loads(r.body)
        r1 == Step(r, "json")
    IN  IF ~boot_data.ok THEN RaiseUnhandled(r1, "JSONDecodeError")
        ELSE IF prod
        THEN IF boot_data.kind # "dict" THEN RaiseUnhandled(r1, "AttributeError")
             ELSE LET r2 == Call(r1, "firestore.set", "unknown_device", <<>>, firestore_ok)
                  IN  IF firestore_ok
                      THEN Return(r2, [NoResponse EXCEPT !.status = "boot_ack"])
                      ELSE RaiseUnhandled(r2, "FirestoreError")
        ELSE Return(r1, [NoResponse EXCEPT !.status = "boot_ack"])

boot_endpoint ==
    /\ phase = "serving"
    /\ req.pc = "handler"
    /\ req.endpoint = "boot"
    /\ \E firestore_ok \in BOOLEAN : req' = boot_result(req, IS_PROD_ENVIRONMENT, firestore_ok)
    /\ UNCHANGED <<IS_PROD_ENVIRONMENT, anchorSecret, phase, MASTER_KEY, AUTH_KEY,
                   ENCRYPTION_KEY, keyWrites>>

\* faulty variant: the handler rotates the authentication key
directive_endpoint_rotating ==
    /\ phase = "serving"
    /\ req.pc = "handler"
    /\ req.endpoint = "directive"
    /\ req' = Return(req, [NoResponse EXCEPT !.status = "SYNC_FILES"])
    /\ AUTH_KEY' = (AUTH_KEY + 1) % KeySpace
    /\ UNCHANGED <<IS_PROD_ENVIRONMENT, anchorSecret, phase, MASTER_KEY,
                   ENCRYPTION_KEY, keyWrites>>

\* directive_endpoint()
directive_endpoint ==
    /\ phase = "serving"
    /\ req.pc = "handler"
    /\ req.endpoint = "directive"
    /\ req' = Return(req, [NoResponse EXCEPT !.status = "SYNC_FILES"])
    /\ UNCHANGED <<IS_PROD_ENVIRONMENT, anchorSecret, phase, MASTER_KEY, AUTH_KEY,
                   ENCRYPTION_KEY, keyWrites>>

\* faulty variant: the decrypted contents are uploaded
uploaded_bytes_decrypted(encrypted_contents, decrypted_contents) == decrypted_contents

\* what ingest_file hands to blob.upload_from_string
uploaded_bytes(encrypted_contents, decrypted_contents) == encrypted_contents

\* ingest_file(request, x_anchor_signature, filename); storage_ok is the
\* outcome of the bucket / blob calls
ingest_result(r, prod, auth_key, encryption_key, storage_ok) ==
    LET encrypted_contents == r.body
        r1 == Step(Step(r, "body"), "hmac")
        expected_signature == hexdigest(HMAC(auth_key, encrypted_contents))
        cmp == compare_digest(expected_signature, r.sig.value)
    IN  IF cmp.raised THEN RaiseUnhandled(r1, "TypeError")
        ELSE IF ~cmp.equal THEN RaiseHTTP(r1, 403)
        ELSE LET r2  == Step(Step(r1, "verified"), "decrypt")
                 dec == FernetDecrypt(encryption_key, encrypted_contents)
             IN  IF ~dec.ok THEN RaiseHTTP(r2, 400)
                 ELSE LET r3 == Step(r2, "decrypted")
                          ack == [status |-> "ingest_ack", filename |-> r.filename,
                                  size |-> Len(encrypted_contents), gcs_path |-> <<>>]
                      IN  IF prod
                          THEN LET r4 == Call(r3, "blob.upload_from_string", r.filename,
                                              uploaded_bytes(encrypted_contents, dec.data),
                                              storage_ok)
                               IN  IF storage_ok
                                   THEN Return(r4, [ack EXCEPT !.gcs_path = <<"gs://", "BUCKET_NAME", r.filename>>])
                                   ELSE RaiseHTTP(r4, 500)
                          ELSE Return(r3, [ack EXCEPT !.gcs_path = <<"gs://", "local-bucket", r.filename>>])

ingest_file ==
    /\ phase = "serving"
    /\ req.pc = "handler"
    /\ req.endpoint = "ingest"
    /\ \E storage_ok \in BOOLEAN :
          req' = ingest_result(req, IS_PROD_ENVIRONMENT, AUTH_KEY, ENCRYPTION_KEY, storage_ok)
    /\ UNCHANGED <<IS_PROD_ENVIRONMENT, anchorSecret, phase, MASTER_KEY, AUTH_KEY,
                   ENCRYPTION_KEY, keyWrites>>

\* the response is sent; the next request can be taken
SendResponse ==
    /\ phase = "serving"
    /\ req.pc = "done"
    /\ req' = Idle
    /\ UNCHANGED <<IS_PROD_ENVIRONMENT, anchorSecret, phase, MASTER_KEY, AUTH_KEY,
                   ENCRYPTION_KEY, keyWrites>>

Next ==
    \/ LoadMasterKey
    \/ DeriveKeys
    \/ Receive
    \/ verify_hmac
    \/ read_root
    \/ boot_endpoint
    \/ directive_endpoint
    \/ ingest_file
    \/ SendResponse

Spec == Init /\ [][Next]_vars

\* ------------------------------------------------- client (test_client.py)
\* AUTH_KEY_DERIVED and encryption_key_derived, from the client's master key
AUTH_KEY_DERIVED(master) == HKDF(master, INFO_AUTH)

encryption_key_derived(master) == urlsafe_b64encode(HKDF(master, INFO_ENCRYPT))

\* generate_signature(body)
generate_signature(master, body) == hexdigest(HMAC(AUTH_KEY_DERIVED(master), body))

\* FERNET_INSTANCE_CLIENT.encrypt(plaintext_content)
client_encrypt(master, plaintext) == FernetEncrypt(encryption_key_derived(master), plaintext)

\* ------------------------------------------------------------- properties
Has(steps, name) == \E i \in 1..Len(steps) : steps[i] = name

Count(steps, name) == Cardinality({i \in 1..Len(steps) : steps[i] = name})

Before(steps, a, b) ==
    \A j \in 1..Len(steps) : steps[j] = b => \E i \in 1..(j - 1) : steps[i] = a

Signed == {"boot", "directive", "ingest"}

HandlerBodySteps == {"json", "decrypt", "decrypted", "write"}

Done(e) == req.pc = "done" /\ req.endpoint = e

ExpectedSignature == hexdigest(HMAC(AUTH_KEY, req.body))

HexChars == {HEX[i] : i \in 1..Len(HEX)}

Malformed(v) == Len(v) # 1 \/ \E i \in 1..Len(v) : v[i] \notin HexChars

\* the plaintexts whose token can have the length of body
PlaintextsFor(body) == IF Len(body) < 2 THEN {} ELSE [1..(Len(body) - 2) -> Bytes]

ValidCiphertext(key, body) == \E p \in PlaintextsFor(body) : FernetEncrypt(key, p) = body

\* C1: on every signed operation, a request that carries a signature header
\* gets past authentication iff the header equals the lowercase hex HMAC of
\* the raw body under AUTH_KEY; every other header value is answered 403 and
\* no step of the handler body runs.
C1_SignatureGate ==
    \A e \in Signed :
        (Done(e) /\ req.sig.present) =>
            /\ Has(req.steps, "verified") <=> (req.sig.value = ExpectedSignature)
            /\ (req.sig.value # ExpectedSignature) =>
                  /\ req.code = 403
                  /\ \A st \in HandlerBodySteps : ~Has(req.steps, st)

\* C2: on each signed operation, a request without the signature header is
\* rejected with 401 before any signature computation, decryption or
\* collaborator call.
C2_MissingHeader401 ==
    \A e \in Signed :
        (Done(e) /\ ~req.sig.present) =>
            /\ req.code = 401
            /\ ~Has(req.steps, "hmac")
            /\ ~Has(req.steps, "decrypt")
            /\ req.calls = <<>>

\* C3 (as claimed): on a successful ingest that uses the blob store, the
\* bytes handed to the blob store are the decrypted plaintext.
C3_UploadIsPlaintext ==
    (Done("ingest") /\ req.code = 200 /\ req.calls # <<>>) =>
        req.calls[1].data = FernetDecrypt(ENCRYPTION_KEY, req.body).data

\* C3 (amended): on a successful ingest that uses the blob store, the body is
\* decrypted before the handoff, and the bytes handed to the blob store are
\* the verified raw (still encrypted) body.
C3_UploadIsVerifiedBody ==
    (Done("ingest") /\ req.code = 200 /\ req.calls # <<>>) =>
        /\ Len(req.calls) = 1
        /\ req.calls[1].op = "blob.upload_from_string"
        /\ req.calls[1].data = req.body
        /\ req.sig.value = ExpectedSignature
        /\ Before(req.steps, "decrypted", "write")

C3_Witness ==
    /\ Done("ingest") /\ req.code = 200 /\ req.calls # <<>>
    /\ FernetDecrypt(ENCRYPTION_KEY, req.body).data # <<>>

\* C4: an ingest request whose signature is correct for its body but whose
\* body is not a valid ciphertext under ENCRYPTION_KEY is answered 400 and no
\* blob-store write is made for it.
C4_BadCiphertext400 ==
    (/\ Done("ingest") /\ req.sig.present
     /\ req.sig.value = ExpectedSignature
     /\ ~ValidCiphertext(ENCRYPTION_KEY, req.body)) =>
        /\ req.code = 400
        /\ req.calls = <<>>

\* a valid token with its last byte cut off, correctly signed, in production
C4_Witness ==
    /\ Done("ingest") /\ IS_PROD_ENVIRONMENT
    /\ req.sig.present /\ req.sig.value = ExpectedSignature
    /\ \E p \in [1..(Len(req.body) - 1) -> Bytes] :
          LET token == FernetEncrypt(ENCRYPTION_KEY, p)
          IN  Len(p) > 0 /\ req.body = SubSeq(token, 1, Len(token) - 1)
    /\ req.code = 400

\* C5: with the master secret empty or absent at startup, in either sourcing
\* mode, the process never serves a request.
C5_NoServingWithoutSecret ==
    (~anchorSecret.set \/ anchorSecret.data = <<>>) =>
        (phase # "serving" /\ req.pc = "idle")

C7_MalformedAsMismatch ==
    \A e \in Signed :
        (Done(e) /\ req.sig.present /\ Malformed(req.sig.value)) =>
            (req.code = 403 /\ req.raised = "HTTPException")

IngestAck ==
    /\ req.code = 200
    /\ req.json.status = "ingest_ack"
    /\ req.json.filename = req.filename
    /\ req.json.gcs_path # <<>>
    /\ req.json.size = Len(req.body)

ClientIngest ==
    /\ Done("ingest") /\ req.sig.present
    /\ req.sig.value = generate_signature(MASTER_KEY, req.body)
    /\ \E p \in PlaintextsFor(req.body) : req.body = client_encrypt(MASTER_KEY, p)

\* C8 (as claimed): an ingest request whose body is the client's encryption
\* of a plaintext and whose signature is the client's, both from the server's
\* (non-empty) master secret, is answered 200 with ingest_ack, the filename,
\* a gcs_path and size = length of the ciphertext body.
C8_ClientIngestAcked == (ClientIngest /\ MASTER_KEY # <<>>) => IngestAck

\* C8 (amended): such a request is answered 200 with that acknowledgment,
\* unless the blob-store write fails, and then it is answered 500.
C8_ClientIngestAckedUnlessStorageFails ==
    ClientIngest =>
        IF req.calls # <<>> /\ ~req.calls[1].ok
        THEN req.code = 500 /\ IS_PROD_ENVIRONMENT
        ELSE IngestAck

C8_Witness ==
    /\ ClientIngest /\ IngestAck
    /\ Len(req.body) = MaxBodyLen
    /\ req.filename = "secret.log.enc"

C10_ErrorsCaughtInHandler ==
    \A e \in {"boot", "ingest"} :
        (Done(e) /\ Has(req.steps, "verified") /\ req.code # 200) =>
            /\ req.raised = "HTTPException"
            /\ (req.calls # <<>> /\ ~req.calls[1].ok) => req.code = 500

====
